---- MODULE Spec2Model ----
(***************************************************************************)
(* Model of src/main.py: the Dialogflow CX webhook that downloads a        *)
(* medical document, runs OCR on it, asks Gemini for structured fields and *)
(* a patient summary, stores the document and the fields, and replies.     *)
(*                                                                         *)
(* One webhook invocation is modelled step by step; every call to an       *)
(* external service (HTTP download, Vision, Gemini, Cloud Storage,         *)
(* Firestore) is one step whose outcome is chosen nondeterministically.    *)
(* Python strings that the code splits or parses are sequences of tokens,  *)
(* where "/" is a token of its own.                                        *)
(***************************************************************************)
EXTENDS Integers, Sequences, FiniteSets, TLC

(***************************************************************************)
(* Bounds of the model.                                                    *)
(***************************************************************************)
\* session paths carry up to this many segments after the documented eight
MaxExtraSegments == 2
\* a JSON array answered by the model has up to this many items
MaxArrayLen == 2

(***************************************************************************)
(* Program constants.                                                      *)
(***************************************************************************)
\* parts[8] (0-based index) in parse_dialogflow_session_id
SessionIdIndex == 8
\* len(parts) >= 9 in parse_dialogflow_session_id
MinParts == 9

MsgInvalidBody == "Invalid request body."
MsgNoSession == "Could not identify session."
MsgNoUrl == "No document URL provided."
MsgNoText == "Could not extract text from the document. Please ensure it is a clear image or PDF."
MsgUnavailable == "Analysis unavailable. Please try again later."
MsgProblem == "There was a problem analyzing your document."
MsgNoSummary == "Could not generate a summary."
MsgDownload == "I couldn't download the document. The link may have expired."
MsgUnexpected == "I encountered an error while processing your request. Please try again."
MsgThankYou == "Thank you! I have analyzed your document."
MsgSummaryPrefix == "Here is a summary of the results:"

\* text produced by the generative model for the summary request
ModelSummaryText == "<summary text written by the model>"

\* the fields the structured-extraction prompt and responseSchema ask for
RequiredFields == {"patientName", "testName", "testDate", "results", "interpretation"}
FieldOrder == <<"patientName", "testName", "testDate", "results", "interpretation">>

\* app_id = "default-app-id"
AppId == "default-app-id"

(***************************************************************************)
(* Python values.                                                          *)
(***************************************************************************)
\* Optional string: None, or a string (a sequence of tokens)
NoneStr == [some |-> FALSE, val |-> <<>>]
Some(s) == [some |-> TRUE, val |-> s]

\* bool(x) of an optional string: None and "" are falsy
TruthyStr(x) == x.some /\ x.val # <<>>

\* str.split("/"): one part more than there are separators
RECURSIVE Split(_)
Split(s) ==
    IF s = <<>> THEN << <<>> >>
    ELSE LET rest == Split(Tail(s))
         IN  IF Head(s) = "/" THEN << <<>> >> \o rest
             ELSE << <<Head(s)>> \o Head(rest) >> \o Tail(rest)

\* "/".join of segments given as tokens
RECURSIVE JoinPath(_)
JoinPath(segs) ==
    IF segs = <<>> THEN <<>>
    ELSE IF Len(segs) = 1 THEN <<Head(segs)>>
    ELSE <<Head(segs), "/">> \o JoinPath(Tail(segs))

parse_dialogflow_session_id(session_path) ==
    LET parts == Split(session_path)
    IN  IF Len(parts) >= MinParts THEN Some(parts[SessionIdIndex + 1]) ELSE NoneStr

\* JSON values as json.loads builds them
EmptyObj == [k \in {} |-> NoneStr]
JNull == [t |-> "null", obj |-> EmptyObj, n |-> 0]
\* the members of an object are strings or None
JObject(K) == [t |-> "object", obj |-> [k \in K |-> Some(<<"value">>)], n |-> 0]
JArray(len) == [t |-> "array", obj |-> EmptyObj, n |-> len]
JString(len) == [t |-> "string", obj |-> EmptyObj, n |-> len]
JNumber(v) == [t |-> "number", obj |-> EmptyObj, n |-> v]
JBool(b) == [t |-> "bool", obj |-> EmptyObj, n |-> IF b THEN 1 ELSE 0]

\* bool(x) of a JSON value: None, {}, [], "", 0 and False are falsy
Truthy(v) ==
    CASE v.t = "null" -> FALSE
      [] v.t = "object" -> DOMAIN v.obj # {}
      [] OTHER -> v.n # 0

(***************************************************************************)
(* Texts the model may answer, as token sequences.  A field token stands   *)
(* for one "name": value member of an object.                              *)
(***************************************************************************)
ObjectText(K) == <<"{">> \o SelectSeq(FieldOrder, LAMBDA f : f \in K) \o <<"}">>
ArrayText(len) == <<"[">> \o [i \in 1..len |-> "item"] \o <<"]">>
\* the token "<fence:json>" is the opening line of a markdown code fence
\* (three backquotes and the word json), "<fence>" the closing three backquotes
Fence(text) == <<"<fence:json>">> \o text \o <<"<fence>">>

ParseError == [ok |-> FALSE, val |-> JNull]
Parsed(v) == [ok |-> TRUE, val |-> v]

Inner(text) == SubSeq(text, 2, Len(text) - 1)
AllIn(seq, S) == \A i \in 1..Len(seq) : seq[i] \in S
Elems(seq) == {seq[i] : i \in 1..Len(seq)}

\* json.loads: a JSON document, or JSONDecodeError
JsonLoads(text) ==
    IF Len(text) >= 2 /\ text[1] = "{" /\ text[Len(text)] = "}" /\ AllIn(Inner(text), RequiredFields)
        THEN Parsed(JObject(Elems(Inner(text))))
    ELSE IF Len(text) >= 2 /\ text[1] = "[" /\ text[Len(text)] = "]" /\ AllIn(Inner(text), {"item"})
        THEN Parsed(JArray(Len(text) - 2))
    ELSE IF text = <<"null">> THEN Parsed(JNull)
    ELSE IF text = <<"0">> THEN Parsed(JNumber(0))
    ELSE IF text = <<"7">> THEN Parsed(JNumber(7))
    ELSE IF text = <<"true">> THEN Parsed(JBool(TRUE))
    ELSE IF text = <<"false">> THEN Parsed(JBool(FALSE))
    ELSE IF text = <<"\"\"">> THEN Parsed(JString(0))
    ELSE IF text = <<"\"text\"">> THEN Parsed(JString(4))
    ELSE ParseError

BareTexts ==
    {ObjectText(K) : K \in SUBSET RequiredFields}
    \cup {ArrayText(len) : len \in 0..MaxArrayLen}
    \cup {<<"null">>, <<"0">>, <<"7">>, <<"true">>, <<"false">>, <<"\"\"">>, <<"\"text\"">>}
BrokenTexts == {<<>>, <<"{">>, <<"Sorry,", "I", "cannot">>}
AnswerTexts == BareTexts \cup {Fence(t) : t \in BareTexts} \cup BrokenTexts

(***************************************************************************)
(* Requests.                                                               *)
(***************************************************************************)
\* the documented path projects/PROJECT_ID/locations/LOCATION/agents/AGENT_ID/sessions/SESSION_ID
DocumentedSegments ==
    <<"projects", "PROJECT_ID", "locations", "LOCATION", "agents", "AGENT_ID", "sessions", "SESSION_ID">>
DocumentedPath == JoinPath(DocumentedSegments)
EnvironmentPath ==
    JoinPath(<<"projects", "PROJECT_ID", "locations", "LOCATION", "agents", "AGENT_ID",
               "environments", "ENV_ID", "sessions", "SESSION_ID">>)
SessionPaths ==
    {<<>>, DocumentedPath \o <<"/">>, EnvironmentPath}
    \cup {JoinPath(DocumentedSegments \o [i \in 1..k |-> "extra"]) : k \in 0..MaxExtraSegments}

Urls == {<<"https:", "/", "/", "host", "/", "report.png">>,
         <<"https:", "/", "/", "host", "/", "scans", "/">>}
OptUrls == {NoneStr, Some(<<>>)} \cup {Some(u) : u \in Urls}

\* request.get_json(silent=True): None, {} or a dict with the keys the
\* handler reads (a missing key reads as its default)
RequestBodies ==
    {[kind |-> k, session |-> <<>>, form_url |-> NoneStr, session_url |-> NoneStr] : k \in {"none", "empty"}}
    \cup [kind : {"dict"}, session : SessionPaths, form_url : OptUrls, session_url : OptUrls]

\* bool(req_body)
TruthyBody(body) == body.kind = "dict"

\* lines 223-231: the form parameter, else the session parameter
DocumentUrlOf(body) == IF TruthyStr(body.form_url) THEN body.form_url ELSE body.session_url

\* document_url.split("/")[-1]
DocNameOf(url) == LET parts == Split(url) IN parts[Len(parts)]

(***************************************************************************)
(* State.                                                                  *)
(***************************************************************************)
VARIABLES
    GEMINI_API_KEY,       \* configuration: TRUE iff the key is a non-empty string
    pc,                   \* position of the invocation
    req_body,             \* the request body received
    session_id,           \* webhook: session_id (= user_id)
    document_url,         \* webhook: document_url
    doc_name,             \* webhook: doc_name
    full_text,            \* webhook: full_text, the OCR text
    structured_data_str,  \* analyze_document_with_gemini: the text answered by the model
    parsed,               \* analyze_document_with_gemini: json.loads(structured_data_str)
    returned,             \* analyze_document_with_gemini has returned
    structured_data,      \* webhook: first component returned by the analysis
    summary_text,         \* webhook: second component returned by the analysis
    gcs_url,              \* webhook: gcs_url
    trace,                \* the external calls made so far, in order, with their outcome
    bucket,               \* blobs written to Cloud Storage
    firestore_docs,       \* documents written to Firestore
    reply                 \* the texts of the fulfillment response, <<>> before the reply

vars == <<GEMINI_API_KEY, pc, req_body, session_id, document_url, doc_name, full_text,
          structured_data_str, parsed, returned, structured_data, summary_text, gcs_url,
          trace, bucket, firestore_docs, reply>>

NoRequest == [kind |-> "none", session |-> <<>>, form_url |-> NoneStr, session_url |-> NoneStr]

Init ==
    /\ GEMINI_API_KEY \in BOOLEAN
    /\ pc = "idle"
    /\ req_body = NoRequest
    /\ session_id = NoneStr
    /\ document_url = NoneStr
    /\ doc_name = <<>>
    /\ full_text = <<>>
    /\ structured_data_str = <<>>
    /\ parsed = JNull
    /\ returned = FALSE
    /\ structured_data = JNull
    /\ summary_text = ""
    /\ gcs_url = NoneStr
    /\ trace = <<>>
    /\ bucket = {}
    /\ firestore_docs = {}
    /\ reply = <<>>

\* one external call: its stage, whether it succeeded, and the exception it raised
Call(stage, err) == [stage |-> stage, ok |-> err = "", err |-> err]

\* jsonify of a response with one text
FailureReply(msg) == << <<msg>> >>
\* lines 280-291
SuccessReply(summary) == << <<MsgThankYou>>, <<MsgSummaryPrefix, summary>> >>

\* the handler returns
Respond(texts) == pc' = "done" /\ reply' = texts

(***************************************************************************)
(* webhook, lines 201-238: validation of the request.                      *)
(***************************************************************************)
ReceiveRequest ==
    /\ pc = "idle"
    /\ \E body \in RequestBodies :
        /\ req_body' = body
        /\ IF ~TruthyBody(body)
             THEN /\ Respond(FailureReply(MsgInvalidBody))
                  /\ UNCHANGED <<session_id, document_url, doc_name>>
           ELSE IF ~TruthyStr(parse_dialogflow_session_id(body.session))
             THEN /\ Respond(FailureReply(MsgNoSession))
                  /\ session_id' = parse_dialogflow_session_id(body.session)
                  /\ UNCHANGED <<document_url, doc_name>>
           ELSE IF ~TruthyStr(DocumentUrlOf(body))
             THEN /\ Respond(FailureReply(MsgNoUrl))
                  /\ session_id' = parse_dialogflow_session_id(body.session)
                  /\ document_url' = DocumentUrlOf(body)
                  /\ UNCHANGED doc_name
           ELSE /\ pc' = "download"
                /\ session_id' = parse_dialogflow_session_id(body.session)
                /\ document_url' = DocumentUrlOf(body)
                /\ UNCHANGED <<doc_name, reply>>
    /\ UNCHANGED <<GEMINI_API_KEY, full_text, structured_data_str, parsed, returned,
                   structured_data, summary_text, gcs_url, trace, bucket, firestore_docs>>

(***************************************************************************)
(* webhook, lines 240-245 and 293-304: the download.                       *)
(***************************************************************************)
\* requests.get raises ConnectionError or Timeout, raise_for_status raises
\* HTTPError, or the content arrives
DownloadOutcomes == {"", "ConnectionError", "Timeout", "HTTPError"}

\* lines 293-298: the except clauses of the handler
ErrorMessageOf(err) == IF err = "HTTPError" THEN MsgDownload ELSE MsgUnexpected

Download ==
    /\ pc = "download"
    /\ \E err \in DownloadOutcomes :
        /\ trace' = Append(trace, Call("download", err))
        /\ IF err = ""
             THEN /\ pc' = "ocr"
                  /\ doc_name' = DocNameOf(document_url.val)
                  /\ UNCHANGED reply
             ELSE /\ Respond(FailureReply(ErrorMessageOf(err)))
                  /\ UNCHANGED doc_name
    /\ UNCHANGED <<GEMINI_API_KEY, req_body, session_id, document_url, full_text,
                   structured_data_str, parsed, returned, structured_data, summary_text,
                   gcs_url, bucket, firestore_docs>>

(***************************************************************************)
(* webhook, lines 247-263: text detection.                                 *)
(***************************************************************************)
\* response.text_annotations: a list of annotations, each with a description
AnnotationLists ==
    {<<>>,
     << <<>> >>,
     << <<"Hemoglobin", "13.2">>, <<"Hemoglobin">>, <<"13.2">> >>}

\* lines 250-253
FullTextOf(text_annotations) ==
    IF text_annotations # <<>> THEN text_annotations[1] ELSE <<>>

TextIsEmptyNoCheck(text) == FALSE
\* line 255: not full_text
TextIsEmpty(text) == text = <<>>

TextDetection ==
    /\ pc = "ocr"
    /\ \/ \* vision_client.text_detection raises
          /\ trace' = Append(trace, Call("ocr", "GoogleAPICallError"))
          /\ Respond(FailureReply(ErrorMessageOf("GoogleAPICallError")))
          /\ UNCHANGED full_text
       \/ \E text_annotations \in AnnotationLists :
            /\ trace' = Append(trace, Call("ocr", ""))
            /\ full_text' = FullTextOf(text_annotations)
            /\ IF TextIsEmpty(FullTextOf(text_annotations))
                 THEN Respond(FailureReply(MsgNoText))
                 ELSE pc' = "analyze" /\ UNCHANGED reply
    /\ UNCHANGED <<GEMINI_API_KEY, req_body, session_id, document_url, doc_name,
                   structured_data_str, parsed, returned, structured_data, summary_text,
                   gcs_url, bucket, firestore_docs>>

(***************************************************************************)
(* analyze_document_with_gemini, lines 52-154, and the handler's use of    *)
(* its result, lines 266-272.                                              *)
(***************************************************************************)
AnalysisFailedNoCheck(data) == FALSE
\* line 267: not structured_data
AnalysisFailed(data) == ~Truthy(data)

\* analyze_document_with_gemini returns (data, summary) to the handler
ReturnToWebhook(data, summary) ==
    /\ returned' = TRUE
    /\ structured_data' = data
    /\ summary_text' = summary
    /\ IF AnalysisFailed(data)
         THEN Respond(FailureReply(summary))
         ELSE pc' = "save_gcs" /\ UNCHANGED reply

\* what a Gemini request can raise before its text is read: requests.post,
\* raise_for_status, response.json(), and [0] of an empty list
RequestErrors == {"ConnectionError", "Timeout", "HTTPError", "InvalidJSONBody", "IndexError"}

\* a response: the exception raised, or the text part (None when the
\* response has no candidates, content, parts or text key)
StructResponses ==
    [err : RequestErrors, text : {NoneStr}]
    \cup [err : {""}, text : {NoneStr} \cup {Some(t) : t \in AnswerTexts}]

\* lines 112-117: .get("text", "{}")
TextOf(resp) == IF resp.text.some THEN resp.text.val ELSE ObjectText({})

\* lines 103-118: the outcome of the structured-extraction request
StructFailure(resp) ==
    IF resp.err # "" THEN resp.err
    ELSE IF ~JsonLoads(TextOf(resp)).ok THEN "JSONDecodeError"
    ELSE ""

GeminiStructuredRequest ==
    /\ pc = "analyze"
    /\ IF ~GEMINI_API_KEY
         THEN \* lines 57-59
              /\ ReturnToWebhook(JNull, MsgUnavailable)
              /\ UNCHANGED <<trace, structured_data_str, parsed>>
         ELSE \E resp \in StructResponses :
              /\ trace' = Append(trace, Call("gemini_struct", StructFailure(resp)))
              /\ structured_data_str' = IF resp.err = "" THEN TextOf(resp) ELSE structured_data_str
              /\ IF StructFailure(resp) = ""
                   THEN /\ parsed' = JsonLoads(TextOf(resp)).val
                        /\ pc' = "gemini_summary"
                        /\ UNCHANGED <<returned, structured_data, summary_text, reply>>
                   ELSE \* lines 152-154
                        /\ ReturnToWebhook(JNull, MsgProblem)
                        /\ UNCHANGED parsed
    /\ UNCHANGED <<GEMINI_API_KEY, req_body, session_id, document_url, doc_name, full_text,
                   gcs_url, bucket, firestore_docs>>

SummaryResponses ==
    [err : RequestErrors, hasText : {FALSE}] \cup [err : {""}, hasText : BOOLEAN]

\* lines 143-149: .get("text", "Could not generate a summary.")
SummaryOf(resp) == IF resp.hasText THEN ModelSummaryText ELSE MsgNoSummary

GeminiSummaryRequest ==
    /\ pc = "gemini_summary"
    /\ \E resp \in SummaryResponses :
        /\ trace' = Append(trace, Call("gemini_summary", resp.err))
        /\ IF resp.err = ""
             THEN ReturnToWebhook(parsed, SummaryOf(resp))
             ELSE ReturnToWebhook(JNull, MsgProblem)
    /\ UNCHANGED <<GEMINI_API_KEY, req_body, session_id, document_url, doc_name, full_text,
                   structured_data_str, parsed, gcs_url, bucket, firestore_docs>>

(***************************************************************************)
(* Persistence, lines 157-191 and 274-291.                                 *)
(***************************************************************************)
GCS_BUCKET_NAME == "your-gcs-bucket-name"

\* line 183
BlobPath(user_id, name) ==
    <<"artifacts", "/", AppId, "/", "users", "/">> \o user_id
        \o <<"/", "medical_reports", "/">> \o name
\* line 186
GcsUrlOf(blob_path) == <<"gs:", "/", "/", GCS_BUCKET_NAME, "/">> \o blob_path
\* line 164
CollectionPath(user_id) ==
    <<"artifacts", "/", AppId, "/", "users", "/">> \o user_id \o <<"/", "medical_reports">>

\* structured_data["gcs_url"] = gcs_url on a dict
SetItem(data, key, value) ==
    [data EXCEPT !.obj = [k \in DOMAIN data.obj \cup {key} |->
                             IF k = key THEN value ELSE data.obj[k]]]

\* save_to_cloud_storage and line 276
SaveToCloudStorage ==
    /\ pc = "save_gcs"
    /\ \E ok \in BOOLEAN :
        LET blob_path == BlobPath(session_id.val, doc_name)
            url == IF ok THEN Some(GcsUrlOf(blob_path)) ELSE NoneStr
        IN  /\ trace' = Append(trace, Call("save_gcs", IF ok THEN "" ELSE "GoogleCloudError"))
            /\ bucket' = IF ok THEN bucket \cup {blob_path} ELSE bucket
            /\ gcs_url' = url
            /\ IF structured_data.t = "object"
                 THEN /\ structured_data' = SetItem(structured_data, "gcs_url", url)
                      /\ pc' = "save_firestore"
                      /\ UNCHANGED reply
                 ELSE \* item assignment on a list, str, int or bool raises TypeError
                      /\ Respond(FailureReply(ErrorMessageOf("TypeError")))
                      /\ UNCHANGED structured_data
    /\ UNCHANGED <<GEMINI_API_KEY, req_body, session_id, document_url, doc_name, full_text,
                   structured_data_str, parsed, returned, summary_text, firestore_docs>>

\* save_to_firestore and lines 279-291
SaveToFirestore ==
    /\ pc = "save_firestore"
    /\ \E ok \in BOOLEAN :
        /\ trace' = Append(trace, Call("save_firestore", IF ok THEN "" ELSE "GoogleCloudError"))
        /\ firestore_docs' =
              IF ok THEN firestore_docs \cup
                         {[collection |-> CollectionPath(session_id.val), data |-> structured_data]}
              ELSE firestore_docs
    /\ Respond(SuccessReply(summary_text))
    /\ UNCHANGED <<GEMINI_API_KEY, req_body, session_id, document_url, doc_name, full_text,
                   structured_data_str, parsed, returned, structured_data, summary_text,
                   gcs_url, bucket>>

Next ==
    \/ ReceiveRequest
    \/ Download
    \/ TextDetection
    \/ GeminiStructuredRequest
    \/ GeminiSummaryRequest
    \/ SaveToCloudStorage
    \/ SaveToFirestore

Spec == Init /\ [][Next]_vars

(***************************************************************************)
(* Properties.                                                             *)
(***************************************************************************)
StageRan(stage) == \E i \in 1..Len(trace) : trace[i].stage = stage
StageOk(stage) == \E i \in 1..Len(trace) : trace[i].stage = stage /\ trace[i].ok
StageFailed(stage) == \E i \in 1..Len(trace) : trace[i].stage = stage /\ ~trace[i].ok
StageFailedWith(stage, err) ==
    \E i \in 1..Len(trace) : trace[i].stage = stage /\ trace[i].err = err
TimesRun(stage) == Cardinality({i \in 1..Len(trace) : trace[i].stage = stage})
StagesRun == [i \in 1..Len(trace) |-> trace[i].stage]
IsSuccessReply == reply # <<>> /\ reply[1] = <<MsgThankYou>>
IsFailureReply == pc = "done" /\ ~IsSuccessReply

\* the order in which the handler calls the external services
StageOrder ==
    <<"download", "ocr", "gemini_struct", "gemini_summary", "save_gcs", "save_firestore">>

\* every constant sentence the code can put in a reply
FixedMessages ==
    {MsgInvalidBody, MsgNoSession, MsgNoUrl, MsgNoText, MsgUnavailable, MsgProblem,
     MsgNoSummary, MsgDownload, MsgUnexpected}

(* C1: when text detection yields empty text, the invocation ends at once  *)
(* with the "Could not extract text" reply; the analysis is never entered, *)
(* no Gemini request is made and nothing is written to Cloud Storage or    *)
(* Firestore.                                                              *)
C1_EmptyTextEndsBeforeAnalysis ==
    (StageOk("ocr") /\ full_text = <<>>) =>
        /\ pc = "done"
        /\ reply = FailureReply(MsgNoText)
        /\ ~returned
        /\ ~StageRan("gemini_struct")
        /\ ~StageRan("gemini_summary")
        /\ bucket = {}
        /\ firestore_docs = {}

C1_Witness ==
    /\ StageOk("ocr")
    /\ full_text = <<>>
    /\ pc = "done"
    /\ reply = FailureReply(MsgNoText)

(* C2: every failed download, a network failure as well as a non-2xx      *)
(* status, is answered with the download-failure sentence, and no later    *)
(* stage runs.                                                             *)
C2_DownloadFailureSentence ==
    StageFailed("download") =>
        /\ reply = FailureReply(MsgDownload)
        /\ Len(trace) = 1

(* C3: a structured result returned by the analysis for a JSON object      *)
(* answered by the model has every required field, with "N/A" for each     *)
(* field the answer omitted.                                               *)
C3_RequiredFieldsBackfilled ==
    (returned /\ structured_data.t # "null" /\ parsed.t = "object") =>
        \A f \in RequiredFields :
            /\ f \in DOMAIN structured_data.obj
            /\ f \notin Elems(structured_data_str) => structured_data.obj[f] = Some(<<"N/A">>)

(* C4: when the structured-extraction request succeeded and parsed but the *)
(* summary request failed, the analysis still returns the extracted fields *)
(* and a non-empty result still reaches persistence.                       *)
C4_PartialSuccessKept ==
    (StageOk("gemini_struct") /\ StageFailed("gemini_summary")) =>
        /\ returned
        /\ structured_data.t = parsed.t
        /\ \A k \in DOMAIN parsed.obj :
              k \in DOMAIN structured_data.obj /\ structured_data.obj[k] = parsed.obj[k]
        /\ (pc = "done" /\ Truthy(parsed)) => StageRan("save_gcs")

(* C5: every reply other than the success reply carries one of the fixed   *)
(* constant sentences, never text written by the model.                    *)
C5_FailureMessagesFixed ==
    IsFailureReply => reply \in {FailureReply(m) : m \in FixedMessages}

(* C6: for the documented eight-segment session path the session id is the *)
(* segment after "sessions", and the reply is not "Could not identify      *)
(* session.".                                                              *)
C6_DocumentedPathIdentified ==
    (pc # "idle" /\ req_body.kind = "dict" /\ req_body.session = DocumentedPath) =>
        /\ session_id = Some(<<"SESSION_ID">>)
        /\ reply # FailureReply(MsgNoSession)

\* a text wrapped in a code fence, and the text inside the fence
IsFenced(text) == Len(text) >= 2 /\ text[1] = "<fence:json>" /\ text[Len(text)] = "<fence>"
Unfence(text) == SubSeq(text, 2, Len(text) - 1)

(* C7: an answer wrapped in a markdown code fence gives the structured     *)
(* result that the same answer gives as bare JSON.                         *)
C7_FencedSameAsBare ==
    (StageRan("gemini_struct") /\ IsFenced(structured_data_str)
        /\ JsonLoads(Unfence(structured_data_str)).ok) =>
        /\ StageOk("gemini_struct")
        /\ parsed = JsonLoads(Unfence(structured_data_str)).val

(* C8: an unparsable answer makes the structured-extraction request be     *)
(* issued a second time before the analysis fails, and there are never     *)
(* more than two such requests.                                            *)
C8_RetryOnceOnUnparsable ==
    /\ TimesRun("gemini_struct") <= 2
    /\ (returned /\ StageFailedWith("gemini_struct", "JSONDecodeError")) =>
          TimesRun("gemini_struct") = 2

\* the stages ran in the fixed order, each at most once and none skipped
InOrderOnce ==
    /\ Len(trace) <= Len(StageOrder)
    /\ StagesRun = SubSeq(StageOrder, 1, Len(trace))

(* C9 as stated: the stages run in the fixed order, each at most once, a   *)
(* stage only after every earlier stage ran and did not fail, and the      *)
(* success reply only after all six were attempted.                        *)
C9_StagesInOrderNoneFailed ==
    /\ InOrderOnce
    /\ \A i \in 1..(Len(trace) - 1) : trace[i].ok
    /\ IsSuccessReply => Len(trace) = Len(StageOrder)

(* C9 amended: the stages run in the fixed order, each at most once, a     *)
(* stage only after every earlier stage ran, and every earlier stage other *)
(* than the Cloud Storage save did not fail; the success reply only after  *)
(* all six were attempted.                                                 *)
C9_StagesInOrder ==
    /\ InOrderOnce
    /\ \A i \in 1..(Len(trace) - 1) : trace[i].ok \/ trace[i].stage = "save_gcs"
    /\ IsSuccessReply => Len(trace) = Len(StageOrder)

C9_Witness ==
    /\ IsSuccessReply
    /\ StageFailed("save_gcs")
    /\ StageRan("save_firestore")
    /\ StagesRun = StageOrder

(* C10: an invocation that ends with a failure reply wrote nothing to      *)
(* Cloud Storage or Firestore.                                             *)
C10_NoWritesOnFailure ==
    IsFailureReply => bucket = {} /\ firestore_docs = {}

====
